---------------------------- MODULE Spec2Model ----------------------------
(***************************************************************************)
(* PHC-ResNet (PH-CNN/models/small_reznets/phcreznet.py).                  *)
(*                                                                         *)
(* The model follows the construction of residual blocks, stages and the   *)
(* two network topologies, and the shapes that their forward passes        *)
(* produce.  A tensor is its shape (batch, channels, height, width) plus   *)
(* one representative element value v; a raised exception is the tensor    *)
(* ErrT (ok = FALSE).  Values range over finite numbers.                   *)
(***************************************************************************)
EXTENDS Integers, Sequences, FiniteSets, TLC

(***************************************************************************)
(* Bounds of the explored inputs.                                          *)
(***************************************************************************)
MaxN == 4
MaxStride == 3
MaxBatch == 2
MaxSide == 6
MaxBlocks == 3
MaxNetSide == 1

Ns == 1..MaxN
Strides == 1..MaxStride
Batches == 1..MaxBatch
BlockSides == 1..MaxSide
NetSides == (1..MaxNetSide) \cup {32}
NetBatches == {1, 2}
Chans == {3, 4, 8}
NetChannels == {3, 4}
NumClasses == {10, 100}
Options == {"A", "B", "C"}
Vals == {-1, 2}

(***************************************************************************)
(* Tensors.                                                                *)
(***************************************************************************)
ErrT == [ok |-> FALSE, b |-> 0, c |-> 0, h |-> 0, w |-> 0, v |-> 0]

Tensor(b, c, h, w, v) == [ok |-> TRUE, b |-> b, c |-> c, h |-> h, w |-> w, v |-> v]

Max(a, b) == IF a >= b THEN a ELSE b

\* one dimension of torch's broadcasting rule; 0 when the sizes do not combine
Broadcast(a, b) == IF a = b THEN a ELSE IF a = 1 THEN b ELSE IF b = 1 THEN a ELSE 0

\* s + t on tensors: elementwise, with broadcasting; an error on mismatched sizes
AddT(s, t) ==
    IF ~s.ok \/ ~t.ok THEN ErrT
    ELSE LET b == Broadcast(s.b, t.b)
             c == Broadcast(s.c, t.c)
             h == Broadcast(s.h, t.h)
             w == Broadcast(s.w, t.w)
         IN IF b = 0 \/ c = 0 \/ h = 0 \/ w = 0 THEN ErrT
            ELSE Tensor(b, c, h, w, s.v + t.v)

\* res_weight * t: a one-element parameter broadcast over t
ScaleT(g, t) == IF t.ok THEN [t EXCEPT !.v = g * t.v] ELSE ErrT

\* F.relu
relu(t) == IF t.ok THEN [t EXCEPT !.v = Max(t.v, 0)] ELSE ErrT

(***************************************************************************)
(* Collaborators: the hypercomplex convolution and batch normalisation.    *)
(***************************************************************************)
NoConv == [ok |-> FALSE, n |-> 0, in |-> 0, out |-> 0, k |-> 0, stride |-> 0, pad |-> 0]

\* PHConv(n, in, out, kernel_size, stride, padding): construction fails
\* unless n divides both channel counts
PHConv(n, in, out, k, stride, pad) ==
    [ok |-> (in % n = 0) /\ (out % n = 0), n |-> n, in |-> in, out |-> out,
     k |-> k, stride |-> stride, pad |-> pad]

\* the convolution applied to x; its weights are arbitrary, so is the value
PHConv_forward(conv, x) ==
    IF ~x.ok \/ x.c # conv.in
       \/ x.h + 2 * conv.pad < conv.k \/ x.w + 2 * conv.pad < conv.k
    THEN ErrT
    ELSE Tensor(x.b, conv.out,
                ((x.h + 2 * conv.pad - conv.k) \div conv.stride) + 1,
                ((x.w + 2 * conv.pad - conv.k) \div conv.stride) + 1, 0)

\* nn.BatchNorm2d(num_features)
BatchNorm2d(planes) == [features |-> planes]

\* the normalisation applied to x: the shape is kept, the value is v.  In training
\* mode torch raises ("Expected more than 1 value per channel when training")
\* when a channel holds a single value: batch * height * width = 1.
BatchNorm2d_forward(bn, x, v, training) ==
    IF ~x.ok \/ x.c # bn.features \/ (training /\ x.b * x.h * x.w = 1) THEN ErrT
    ELSE [x EXCEPT !.v = v]

(***************************************************************************)
(* BasicBlock                                                              *)
(***************************************************************************)
expansion == 1

\* nn.Sequential(): the bare pass-through
EmptySequential == [kind |-> "sequential", pad |-> 0, conv |-> NoConv, bn |-> BatchNorm2d(0)]

\* LambdaLayer(lambda x: F.pad(x[:, :, ::2, ::2], (0, 0, 0, 0, planes//4, planes//4), "constant", 0))
LambdaLayer(planes) ==
    [kind |-> "lambda", pad |-> planes \div 4, conv |-> NoConv, bn |-> BatchNorm2d(0)]

\* nn.Sequential(PHConv(n, in_planes, expansion * planes, kernel_size=1, stride=stride), BatchNorm2d(...))
Projection(n, in_planes, planes, stride) ==
    [kind |-> "projection", pad |-> 0,
     conv |-> PHConv(n, in_planes, expansion * planes, 1, stride, 0),
     bn |-> BatchNorm2d(expansion * planes)]

\* the shortcut chosen by BasicBlock.__init__
Shortcut(in_planes, planes, stride, option, n) ==
    IF stride # 1 \/ in_planes # planes
    THEN IF option = "A" THEN LambdaLayer(planes)
         ELSE IF option = "B" THEN Projection(n, in_planes, planes, stride)
         ELSE EmptySequential
    ELSE EmptySequential

\* a plausible slip: the projection convolution built without the block's stride
BasicBlockUnstridedShortcut(in_planes, planes, stride, option, n, rezero) ==
    LET conv1 == PHConv(n, in_planes, planes, 3, stride, 1)
        conv2 == PHConv(n, planes, planes, 3, 1, 1)
        shortcut == Shortcut(in_planes, planes, 1, option, n)
    IN [ok |-> conv1.ok /\ conv2.ok /\ (shortcut.kind = "projection" => shortcut.conv.ok),
        conv1 |-> conv1, bn1 |-> BatchNorm2d(planes),
        conv2 |-> conv2, bn2 |-> BatchNorm2d(planes),
        shortcut |-> shortcut, rezero |-> rezero, res_weight |-> 0]

\* BasicBlock.__init__; ok = FALSE when a PHConv constructor raised.
\* res_weight exists only when rezero is set (it is never read otherwise).
BasicBlock(in_planes, planes, stride, option, n, rezero) ==
    LET conv1 == PHConv(n, in_planes, planes, 3, stride, 1)
        conv2 == PHConv(n, planes, planes, 3, 1, 1)
        shortcut == Shortcut(in_planes, planes, stride, option, n)
    IN [ok |-> conv1.ok /\ conv2.ok /\ (shortcut.kind = "projection" => shortcut.conv.ok),
        conv1 |-> conv1, bn1 |-> BatchNorm2d(planes),
        conv2 |-> conv2, bn2 |-> BatchNorm2d(planes),
        shortcut |-> shortcut, rezero |-> rezero, res_weight |-> 0]

NoBlock == BasicBlock(0, 0, 0, "B", 1, FALSE)

\* self.shortcut(x); pv is the value a projection produces
Shortcut_forward(shortcut, x, pv, training) ==
    IF shortcut.kind = "lambda"
    THEN IF x.ok
         THEN Tensor(x.b, x.c + 2 * shortcut.pad, (x.h + 1) \div 2, (x.w + 1) \div 2, x.v)
         ELSE ErrT
    ELSE IF shortcut.kind = "projection"
    THEN BatchNorm2d_forward(shortcut.bn, PHConv_forward(shortcut.conv, x), pv, training)
    ELSE x

\* BasicBlock.forward: the shortcut, the residual branch (bn2's output) and the result.
\* hv is the value the residual branch produces, pv the projection's; training is
\* the module's mode (nn.Module.training: set at construction, cleared by eval()).
BasicBlock_forward(blk, x, hv, pv, training) ==
    LET out1 == relu(BatchNorm2d_forward(blk.bn1, PHConv_forward(blk.conv1, x), hv, training))
        out2 == BatchNorm2d_forward(blk.bn2, PHConv_forward(blk.conv2, out1), hv, training)
        sc == Shortcut_forward(blk.shortcut, x, pv, training)
    IN [shortcut |-> sc, residual |-> out2,
        out |-> IF blk.rezero
                THEN AddT(sc, ScaleT(blk.res_weight, relu(out2)))
                ELSE relu(AddT(sc, out2))]

(***************************************************************************)
(* _make_layer                                                             *)
(***************************************************************************)
\* strides = [stride] + [1]*(num_blocks-1); a list times a negative count is empty
StrideList(stride, num_blocks) == <<stride>> \o [i \in 1..Max(num_blocks - 1, 0) |-> 1]

\* a plausible slip: the running channel count is not updated in the loop
make_layer_body_stale(st, stride, planes, n, rezero) ==
    IF ~st.ok THEN st
    ELSE LET block == BasicBlock(st.in_planes, planes, stride, "B", n, rezero)
         IN IF ~block.ok THEN [st EXCEPT !.ok = FALSE]
            ELSE [ok |-> TRUE, layers |-> Append(st.layers, block),
                  in_planes |-> st.in_planes]

\* one pass of the loop body of _make_layer: a block is constructed from the
\* running channel count and appended, and the running count becomes
\* planes * expansion; once a constructor has raised (ok = FALSE) nothing more runs
make_layer_body(st, stride, planes, n, rezero) ==
    IF ~st.ok THEN st
    ELSE LET block == BasicBlock(st.in_planes, planes, stride, "B", n, rezero)
         IN IF ~block.ok THEN [st EXCEPT !.ok = FALSE]
            ELSE [ok |-> TRUE, layers |-> Append(st.layers, block),
                  in_planes |-> planes * expansion]

\* the loop "for stride in strides" over strides[lo..hi], in order, from state st,
\* a raised exception ending it (the range is halved to keep the evaluation shallow)
RECURSIVE make_layer_loop(_, _, _, _, _, _, _)
make_layer_loop(strides, lo, hi, st, planes, n, rezero) ==
    IF lo > hi THEN st
    ELSE IF lo = hi THEN make_layer_body(st, strides[lo], planes, n, rezero)
    ELSE LET mid == (lo + hi) \div 2
             first == make_layer_loop(strides, lo, mid, st, planes, n, rezero)
         IN IF first.ok THEN make_layer_loop(strides, mid + 1, hi, first, planes, n, rezero)
            ELSE first

\* PHMResNet._make_layer(block, planes, num_blocks, stride, n, rezero) with
\* self.in_planes = in_planes on entry
make_layer(in_planes, planes, num_blocks, stride, n, rezero) ==
    LET strides == StrideList(stride, num_blocks)
    IN make_layer_loop(strides, 1, Len(strides),
                       [ok |-> TRUE, layers |-> <<>>, in_planes |-> in_planes],
                       planes, n, rezero)

\* PHMResNetLarge._make_layer, the same code
make_layer_large(in_planes, planes, num_blocks, stride, n, rezero) ==
    LET strides == StrideList(stride, num_blocks)
    IN make_layer_loop(strides, 1, Len(strides),
                       [ok |-> TRUE, layers |-> <<>>, in_planes |-> in_planes],
                       planes, n, rezero)

NoStage == [ok |-> FALSE, layers |-> <<>>, in_planes |-> 0]

(***************************************************************************)
(* The topologies and the factories                                        *)
(***************************************************************************)
Factories == {"phcresnet20", "phcresnet20large", "phcresnet32", "phcresnet44",
              "phcresnet56", "phcresnet110", "phcresnet110large", "phcresnet1202"}

\* the class each factory instantiates
Topology(f) == IF f \in {"phcresnet20large", "phcresnet110large"}
               THEN "PHMResNetLarge" ELSE "PHMResNet"

\* a plausible slip: one stage of phcresnet56 a block short
num_blocks_short(f) ==
    IF f \in {"phcresnet20", "phcresnet20large"} THEN <<3, 3, 3>>
    ELSE IF f = "phcresnet32" THEN <<5, 5, 5>>
    ELSE IF f = "phcresnet44" THEN <<7, 7, 7>>
    ELSE IF f = "phcresnet56" THEN <<9, 9, 8>>
    ELSE IF f \in {"phcresnet110", "phcresnet110large"} THEN <<18, 18, 18>>
    ELSE <<200, 200, 200>>

\* the block schedule each factory passes
num_blocks(f) ==
    IF f \in {"phcresnet20", "phcresnet20large"} THEN <<3, 3, 3>>
    ELSE IF f = "phcresnet32" THEN <<5, 5, 5>>
    ELSE IF f = "phcresnet44" THEN <<7, 7, 7>>
    ELSE IF f = "phcresnet56" THEN <<9, 9, 9>>
    ELSE IF f \in {"phcresnet110", "phcresnet110large"} THEN <<18, 18, 18>>
    ELSE <<200, 200, 200>>

\* stem and stage widths of PHMResNet: 16, then 16, 32, 64; the head reads 64
PHMResNet_widths == [stem |-> 16, stages |-> <<16, 32, 64>>, head |-> 64]

\* stem and stage widths of PHMResNetLarge: 24, then 24, 72, 216; the head reads 216
PHMResNetLarge_widths == [stem |-> 24, stages |-> <<24, 72, 216>>, head |-> 216]

Widths(topology) == IF topology = "PHMResNetLarge" THEN PHMResNetLarge_widths
                    ELSE PHMResNet_widths

\* the stage strides of both topologies
StageStride(i) == IF i = 1 THEN 1 ELSE 2

\* self._make_layer of the topology under construction
MakeStage(topology, in_planes, planes, k, stride, n, rezero) ==
    IF topology = "PHMResNetLarge"
    THEN make_layer_large(in_planes, planes, k, stride, n, rezero)
    ELSE make_layer(in_planes, planes, k, stride, n, rezero)

NoLinear == [in |-> 0, out |-> 0]

NoNet == [topology |-> "none", in_planes |-> 0, conv1 |-> NoConv, bn1 |-> BatchNorm2d(0),
          layer1 |-> <<>>, layer2 |-> <<>>, layer3 |-> <<>>, linear |-> NoLinear]

\* nn.Sequential of blocks applied to t: layers[lo..hi] in order, each block fed
\* the output of the one before an error ending the pass (the range is
\* halved to keep the evaluation shallow; values are not followed through a network)
RECURSIVE Sequential_forward(_, _, _, _, _)
Sequential_forward(layers, lo, hi, t, training) ==
    IF lo > hi THEN t
    ELSE IF lo = hi THEN BasicBlock_forward(layers[lo], t, 0, 0, training).out
    ELSE LET mid == (lo + hi) \div 2
             first == Sequential_forward(layers, lo, mid, t, training)
         IN IF first.ok THEN Sequential_forward(layers, mid + 1, hi, first, training)
            ELSE first

\* F.avg_pool2d(out, out.size()[3]): a square window of side W, moved by W
avg_pool2d(t, kernel) ==
    IF ~t.ok \/ t.h < kernel \/ t.w < kernel THEN ErrT
    ELSE Tensor(t.b, t.c, ((t.h - kernel) \div kernel) + 1, ((t.w - kernel) \div kernel) + 1, t.v)

NoFlat == [ok |-> FALSE, b |-> 0, f |-> 0]

\* out.view(out.size(0), -1)
view(t) == IF t.ok THEN [ok |-> TRUE, b |-> t.b, f |-> t.c * t.h * t.w] ELSE NoFlat

\* self.linear(out)
Linear_forward(linear, t) ==
    IF t.ok /\ t.f = linear.in THEN [ok |-> TRUE, b |-> t.b, f |-> linear.out] ELSE NoFlat

\* PHMResNet.forward / PHMResNetLarge.forward: the stage-3 feature map, the pooled
\* map, the flattened tensor and the logits
Net_forward(nt, t, training) ==
    LET out0 == relu(BatchNorm2d_forward(nt.bn1, PHConv_forward(nt.conv1, t), 0, training))
        out1 == Sequential_forward(nt.layer1, 1, Len(nt.layer1), out0, training)
        out2 == Sequential_forward(nt.layer2, 1, Len(nt.layer2), out1, training)
        out3 == Sequential_forward(nt.layer3, 1, Len(nt.layer3), out2, training)
        pool == IF out3.ok THEN avg_pool2d(out3, out3.w) ELSE ErrT
        fl == view(pool)
    IN [feat |-> out3, pooled |-> pool, flat |-> fl, logits |-> Linear_forward(nt.linear, fl)]

VARIABLES pc, args, blk, training, x, sc, res, out, stage, net, feat, pooled, flat, logits

vars == <<pc, args, blk, training, x, sc, res, out, stage, net, feat, pooled, flat, logits>>

NoArgs == [f |-> "none"]

Init ==
    /\ pc = "idle"
    /\ args = NoArgs
    /\ blk = NoBlock
    /\ training = TRUE
    /\ x = ErrT
    /\ sc = ErrT
    /\ res = ErrT
    /\ out = ErrT
    /\ stage = NoStage
    /\ net = NoNet
    /\ feat = ErrT
    /\ pooled = ErrT
    /\ flat = NoFlat
    /\ logits = NoFlat

\* BasicBlock(in_planes, planes, stride, option, n, rezero)
NewBlock ==
    /\ pc = "idle"
    /\ \E in_planes \in Chans, planes \in Chans, stride \in Strides,
          option \in Options, n \in Ns, rezero \in BOOLEAN :
          /\ args' = [f |-> "BasicBlock", in_planes |-> in_planes, planes |-> planes,
                      stride |-> stride, option |-> option, n |-> n, rezero |-> rezero]
          /\ blk' = BasicBlock(in_planes, planes, stride, option, n, rezero)
          /\ pc' = IF blk'.ok THEN "block" ELSE "block_error"
    /\ UNCHANGED <<training, x, sc, res, out, stage, net, feat, pooled, flat, logits>>

\* block(x) for an input with the block's input channel count, the block in
\* training mode (as constructed) or in evaluation mode (after eval())
BlockForward ==
    /\ pc = "block"
    /\ \E b \in Batches, h \in BlockSides, w \in BlockSides, xv \in Vals, hv \in Vals, pv \in Vals,
          mode \in BOOLEAN :
          /\ (blk.shortcut.kind # "projection" => pv = 2)
          /\ training' = mode
          /\ x' = Tensor(b, args.in_planes, h, w, xv)
          /\ LET r == BasicBlock_forward(blk, x', hv, pv, mode)
             IN /\ sc' = r.shortcut
                /\ res' = r.residual
                /\ out' = r.out
    /\ pc' = "block_forward"
    /\ UNCHANGED <<args, blk, stage, net, feat, pooled, flat, logits>>

\* self._make_layer(BasicBlock, planes, num_blocks, stride, n, rezero) on a
\* topology whose running channel count is in_planes
MakeLayer ==
    /\ pc = "idle"
    /\ \E topology \in {"PHMResNet", "PHMResNetLarge"}, in_planes \in Chans, planes \in Chans,
          k \in 0..MaxBlocks, stride \in Strides, n \in Ns, rezero \in BOOLEAN :
          /\ args' = [f |-> "_make_layer", topology |-> topology, in_planes |-> in_planes,
                      planes |-> planes, num_blocks |-> k, stride |-> stride, n |-> n,
                      rezero |-> rezero]
          /\ stage' = MakeStage(topology, in_planes, planes, k, stride, n, rezero)
          /\ pc' = IF stage'.ok THEN "stage" ELSE "stage_error"
    /\ UNCHANGED <<blk, training, x, sc, res, out, net, feat, pooled, flat, logits>>

\* a factory is called: PHMResNet(BasicBlock, num_blocks, ...) starts, self.in_planes is set
Call ==
    /\ pc = "idle"
    /\ \E f \in Factories, channels \in NetChannels, n \in Ns, num_classes \in NumClasses,
          rezero \in BOOLEAN :
          /\ args' = [f |-> f, num_blocks |-> num_blocks(f), channels |-> channels, n |-> n,
                      num_classes |-> num_classes, rezero |-> rezero]
          /\ net' = [NoNet EXCEPT !.topology = Topology(f),
                                  !.in_planes = Widths(Topology(f)).stem]
    /\ pc' = "stem"
    /\ UNCHANGED <<blk, training, x, sc, res, out, stage, feat, pooled, flat, logits>>

\* a plausible slip: the stem convolution's failure is not raised
StemUnchecked ==
    /\ pc = "stem"
    /\ LET wd == Widths(net.topology).stem
       IN /\ net' = [net EXCEPT !.conv1 = PHConv(args.n, args.channels, wd, 3, 1, 1),
                                !.bn1 = BatchNorm2d(wd)]
          /\ pc' = "layer1"
    /\ UNCHANGED <<args, blk, training, x, sc, res, out, stage, feat, pooled, flat, logits>>

\* self.conv1 = PHConv(n, channels, 16, ...); self.bn1 = nn.BatchNorm2d(16)
Stem ==
    /\ pc = "stem"
    /\ LET wd == Widths(net.topology).stem
           conv == PHConv(args.n, args.channels, wd, 3, 1, 1)
       IN IF conv.ok
          THEN /\ net' = [net EXCEPT !.conv1 = conv, !.bn1 = BatchNorm2d(wd)]
               /\ pc' = "layer1"
          ELSE /\ net' = net
               /\ pc' = "error"
    /\ UNCHANGED <<args, blk, training, x, sc, res, out, stage, feat, pooled, flat, logits>>

\* self.layer1 = self._make_layer(block, 16, num_blocks[0], stride=1, ...)
Layer1 ==
    /\ pc = "layer1"
    /\ LET st == MakeStage(net.topology, net.in_planes, Widths(net.topology).stages[1],
                           args.num_blocks[1], StageStride(1), args.n, args.rezero)
       IN /\ net' = [net EXCEPT !.layer1 = st.layers, !.in_planes = st.in_planes]
          /\ pc' = IF st.ok THEN "layer2" ELSE "error"
    /\ UNCHANGED <<args, blk, training, x, sc, res, out, stage, feat, pooled, flat, logits>>

\* self.layer2 = self._make_layer(block, 32, num_blocks[1], stride=2, ...)
Layer2 ==
    /\ pc = "layer2"
    /\ LET st == MakeStage(net.topology, net.in_planes, Widths(net.topology).stages[2],
                           args.num_blocks[2], StageStride(2), args.n, args.rezero)
       IN /\ net' = [net EXCEPT !.layer2 = st.layers, !.in_planes = st.in_planes]
          /\ pc' = IF st.ok THEN "layer3" ELSE "error"
    /\ UNCHANGED <<args, blk, training, x, sc, res, out, stage, feat, pooled, flat, logits>>

\* self.layer3 = self._make_layer(block, 64, num_blocks[2], stride=2, ...)
Layer3 ==
    /\ pc = "layer3"
    /\ LET st == MakeStage(net.topology, net.in_planes, Widths(net.topology).stages[3],
                           args.num_blocks[3], StageStride(3), args.n, args.rezero)
       IN /\ net' = [net EXCEPT !.layer3 = st.layers, !.in_planes = st.in_planes]
          /\ pc' = IF st.ok THEN "head" ELSE "error"
    /\ UNCHANGED <<args, blk, training, x, sc, res, out, stage, feat, pooled, flat, logits>>

\* self.linear = nn.Linear(64, num_classes); the network is built
BuildHead ==
    /\ pc = "head"
    /\ net' = [net EXCEPT !.linear = [in |-> Widths(net.topology).head,
                                      out |-> args.num_classes]]
    /\ pc' = "built"
    /\ UNCHANGED <<args, blk, training, x, sc, res, out, stage, feat, pooled, flat, logits>>

\* net(x) for an input with the network's channel count, the network in training
\* mode (as constructed) or in evaluation mode (after eval())
Forward ==
    /\ pc = "built"
    /\ \E b \in NetBatches, h \in NetSides, w \in NetSides, mode \in BOOLEAN :
          /\ training' = mode
          /\ x' = Tensor(b, args.channels, h, w, 0)
          /\ LET r == Net_forward(net, x', mode)
             IN /\ feat' = r.feat
                /\ pooled' = r.pooled
                /\ flat' = r.flat
                /\ logits' = r.logits
    /\ pc' = "forward"
    /\ UNCHANGED <<args, blk, sc, res, out, stage, net>>

\* blocks and stages on their own
NextBlock ==
    \/ NewBlock
    \/ BlockForward
    \/ MakeLayer

\* the networks the factories build
NextNet ==
    \/ Call
    \/ Stem
    \/ Layer1
    \/ Layer2
    \/ Layer3
    \/ BuildHead
    \/ Forward

Next == NextBlock \/ NextNet

SpecBlock == Init /\ [][NextBlock]_vars

SpecNet == Init /\ [][NextNet]_vars

Spec == Init /\ [][Next]_vars

(***************************************************************************)
(* Properties                                                              *)
(***************************************************************************)
Divides(n, c) == c % n = 0

\* ceil(a / b)
CeilDiv(a, b) == (a + b - 1) \div b

BlockStates == {"block", "block_forward"}

\* two tensors of the same size
SameShape(s, t) == s.ok /\ t.ok /\ s.b = t.b /\ s.c = t.c /\ s.h = t.h /\ s.w = t.w

\* a channel of a (b, c, h, w) tensor holds a single value: what BatchNorm2d
\* refuses in training mode
SingleValue(b, h, w) == b * h * w = 1

NeedsShortcut == args.stride # 1 \/ args.in_planes # args.planes

\* C1 (as claimed): whenever stride # 1 or in_planes # planes, whatever the
\* option, the constructed block's shortcut is a projection or a padded identity,
\* never the empty Sequential, and shortcut(x) has the shape of the main branch.
C1_ShortcutNeverBare ==
    (pc \in BlockStates /\ NeedsShortcut)
        => /\ blk.shortcut.kind \in {"projection", "lambda"}
           /\ (pc = "block_forward" /\ res.ok => SameShape(sc, res))

\* C2 (as claimed): for every block count k >= 0, _make_layer returns exactly k
\* blocks, the first built with (running count, width, stride), the others with
\* (width, width, 1), and leaves the running count at width * expansion.
C2_StageHasKBlocks ==
    pc = "stage"
        => /\ Len(stage.layers) = args.num_blocks
           /\ \A i \in 1..Len(stage.layers) :
                 /\ stage.layers[i].conv1.in = (IF i = 1 THEN args.in_planes ELSE args.planes)
                 /\ stage.layers[i].conv1.out = args.planes
                 /\ stage.layers[i].conv1.stride = (IF i = 1 THEN args.stride ELSE 1)
           /\ stage.in_planes = args.planes * expansion

\* C3 (as claimed, where the residual branch itself is computed without error):
\* every block constructed with rezero has res_weight = 0, and its forward(x)
\* equals shortcut(x) exactly, for every input and every value of the residual
\* branch.
C3_RezeroForwardIsShortcut ==
    (pc \in BlockStates /\ args.rezero)
        => /\ blk.res_weight = 0
           /\ (pc = "block_forward" /\ res.ok => out = sc)

NetStates == {"layer1", "layer2", "layer3", "head", "built", "forward"}

AllWidthsDivisible ==
    LET wd == Widths(Topology(args.f))
    IN /\ Divides(args.n, args.channels)
       /\ Divides(args.n, wd.stem)
       /\ \A i \in 1..3 : Divides(args.n, wd.stages[i])

\* the side of the stage-3 feature map of a square input of side s: two stages
\* of stride 2
Stage3Side(s) == CeilDiv(CeilDiv(s, 2), 2)

\* C5 (amended): every factory's network, for n dividing channels and all widths
\* (the construction then succeeds), maps a square input (B, channels, S, S) to
\* logits of shape (B, num_classes), every block receiving the channel count it
\* was constructed for; except that in training mode with B = 1 and a 1x1
\* stage-3 map (S <= 4) a normalisation raises and forward fails.
C5_EndToEndShape ==
    /\ (pc = "error" => ~AllWidthsDivisible)
    /\ (pc = "forward" /\ x.h = x.w)
          => IF training /\ SingleValue(x.b, Stage3Side(x.h), Stage3Side(x.w))
             THEN ~logits.ok
             ELSE /\ feat.ok
                  /\ feat.c = Widths(net.topology).head
                  /\ logits = [ok |-> TRUE, b |-> x.b, f |-> args.num_classes]

\* C5 (as claimed): for every batch size B >= 1 and every square side S the
\* network maps (B, channels, S, S) to logits of shape (B, num_classes).
C5_EveryBatchEverySide ==
    (pc = "forward" /\ x.h = x.w)
        => logits = [ok |-> TRUE, b |-> x.b, f |-> args.num_classes]

\* phcresnet20(channels=4, n=4, num_classes=10), as constructed, has mapped
\* (2, 4, 32, 32) to (2, 10)
C5_Witness ==
    /\ pc = "forward"
    /\ training
    /\ args.f = "phcresnet20"
    /\ args.channels = 4
    /\ args.n = 4
    /\ args.num_classes = 10
    /\ x = Tensor(2, 4, 32, 32, 0)
    /\ logits = [ok |-> TRUE, b |-> 2, f |-> 10]

\* the depth a factory's name carries
DepthLabel(f) ==
    IF f \in {"phcresnet20", "phcresnet20large"} THEN 20
    ELSE IF f = "phcresnet32" THEN 32
    ELSE IF f = "phcresnet44" THEN 44
    ELSE IF f = "phcresnet56" THEN 56
    ELSE IF f \in {"phcresnet110", "phcresnet110large"} THEN 110
    ELSE 1202

\* the blocks per stage the specification gives for a depth
BlocksPerStage(d) ==
    IF d = 20 THEN 3 ELSE IF d = 32 THEN 5 ELSE IF d = 44 THEN 7
    ELSE IF d = 56 THEN 9 ELSE IF d = 110 THEN 18 ELSE 200

BlockCarries(b, n, rezero) ==
    /\ b.conv1.n = n
    /\ b.conv2.n = n
    /\ (b.shortcut.kind = "projection" => b.shortcut.conv.n = n)
    /\ b.rezero = rezero

\* C6: a factory labelled d passes the schedule [k, k, k] with k = 3, 5, 7, 9, 18,
\* 200 for d = 20, 32, 44, 56, 110, 1202, so 6k + 2 = d; the built network has k
\* blocks in each of its 3 stages; channels, n, num_classes and rezero reach the
\* topology and every block unchanged; the "large" factories build PHMResNetLarge.
C6_DepthSchedule ==
    LET k == BlocksPerStage(DepthLabel(args.f))
    IN /\ (pc \in NetStates \cup {"stem", "error"}
               => /\ args.num_blocks = <<k, k, k>>
                  /\ 6 * k + 2 = DepthLabel(args.f))
       /\ (pc \in {"built", "forward"}
               => /\ Len(net.layer1) = k /\ Len(net.layer2) = k /\ Len(net.layer3) = k
                  /\ Len(net.layer1) + Len(net.layer2) + Len(net.layer3) = 3 * k
                  /\ \A i \in 1..k :
                        /\ BlockCarries(net.layer1[i], args.n, args.rezero)
                        /\ BlockCarries(net.layer2[i], args.n, args.rezero)
                        /\ BlockCarries(net.layer3[i], args.n, args.rezero)
                  /\ net.conv1.n = args.n
                  /\ net.conv1.in = args.channels
                  /\ net.linear.out = args.num_classes
                  /\ net.topology = (IF args.f \in {"phcresnet20large", "phcresnet110large"}
                                     THEN "PHMResNetLarge" ELSE "PHMResNet"))

\* phcresnet1202 has been built with 200 blocks in its last stage
C6_Witness ==
    /\ pc = "built"
    /\ args.f = "phcresnet1202"
    /\ Len(net.layer3) = 200
    /\ net.layer3[200].rezero = args.rezero

\* C7 (as claimed): a BasicBlock constructed with an option other than 'A' and
\* 'B' fails at construction, for every (in_planes, planes, stride).
C7_UnsupportedOptionRaises ==
    (args.f = "BasicBlock" /\ args.option \notin {"A", "B"}) => pc = "block_error"

C9_PadShortcutShape ==
    (pc = "block_forward" /\ args.option = "A" /\ NeedsShortcut)
        => /\ sc.ok
           /\ sc.b = x.b
           /\ sc.h = CeilDiv(x.h, args.stride)
           /\ sc.w = CeilDiv(x.w, args.stride)
           /\ sc.c = args.planes

\* C10 (as claimed): for every feature map leaving stage 3, H # W included, the
\* pooled map is 1x1 and the flattened tensor is (B, C) with C the head's width.
C10_GlobalPool ==
    (pc = "forward" /\ feat.ok)
        => /\ pooled.ok
           /\ pooled.h = 1
           /\ pooled.w = 1
           /\ flat = [ok |-> TRUE, b |-> feat.b, f |-> Widths(net.topology).head]
=============================================================================
